---- MODULE Spec2Model ----
(***************************************************************************)
(* create-gaarf-wf (gcp/create-gaarf-wf/src/index.ts): the command runner  *)
(* exec_cmd, the macro resolver getMacroValues/prompt and the part of      *)
(* init that sequences them.                                               *)
(*                                                                         *)
(* A text is a sequence of lexemes.  Every lexeme is one character, except *)
(* the two spellings of the FUNCTIONS marker, which are nine characters    *)
(* long: offsets returned by String.match are character offsets.           *)
(***************************************************************************)
EXTENDS Integers, Sequences, FiniteSets, TLC

VARIABLES
    fs,         \* folder path -> directory entries below it
    answers,    \* the answers object of init (top-level key -> value)
    answers0,   \* history: answers as it was when getMacroValues was entered
    mcall,      \* the getMacroValues call in progress, or its outcome
    notices,    \* number of 'Please enter values ...' notices printed
    promptLog,  \* history: the question names inquirer displayed, in order
    is_diag,    \* argv.diag
    is_debug,   \* argv.debug || argv.diag
    calls,      \* call id -> the state of that exec_cmd call
    events,     \* history: spinner/spawn/close/resolve events, in order
    termOut,    \* what was done to process.stdout, in order
    termErr,    \* what was written to process.stderr, in order
    logFile,    \* the entries appended to LOG_FILE, in order
    ipc         \* init: where its control is

macroVars == <<fs, answers, answers0, mcall, notices, promptLog>>
cmdVars == <<is_diag, is_debug, calls, events, termOut, termErr, logFile>>
vars == <<fs, answers, answers0, mcall, notices, promptLog,
          is_diag, is_debug, calls, events, termOut, termErr, logFile, ipc>>

(***************************************************************************)
(* Bounds                                                                  *)
(***************************************************************************)
\* longest query text (in lexemes) of the scanned file
MaxText == 5

\* most files of a folder whose macros are resolved against a cache
MaxFiles == 2

\* most characters a command writes to its stdout, and to its stderr
MaxOut == 3

MaxErr == 1

\* widest terminal
MaxWidth == 2

\* most chunks written plus commands failed in one run of init
MaxRunEvents == 1

Range(s) == {s[i] : i \in DOMAIN s}

SeqsUpTo(S, n) == UNION {[1..k -> S] : k \in 0..n}

(***************************************************************************)
(* Texts                                                                   *)
(***************************************************************************)
Markers == {"FUNCTIONS", "functions"}

\* the lexemes of the texts that are scanned exhaustively
Lexemes == {"{", "}", "$", "a"} \cup Markers

LexLen(l) == IF l \in Markers THEN 9 ELSE 1

RECURSIVE CharLen(_)
CharLen(text) ==
    IF text = <<>> THEN 0 ELSE LexLen(Head(text)) + CharLen(Tail(text))

NoMatch == -1

\* script_content.match(/FUNCTIONS/i): the character offset of the first
\* occurrence of the marker in either case, NoMatch for a null result
FnMatchIndex(text) ==
    LET hits == {k \in DOMAIN text : text[k] \in Markers}
    IN  IF hits = {} THEN NoMatch
        ELSE LET first == CHOOSE k \in hits : \A h \in hits : k <= h
             IN  CharLen(SubSeq(text, 1, first - 1))

\* script_content.substring(0, index)
RECURSIVE Substring0(_, _)
Substring0(text, index) ==
    IF text = <<>> \/ LexLen(Head(text)) > index THEN <<>>
    ELSE <<Head(text)>> \o Substring0(Tail(text), index - LexLen(Head(text)))

\* if (fn_match?.index) script_content = script_content.substring(0, index):
\* a null match and the index 0 are both falsy
CutFunctions(text) ==
    LET index == FnMatchIndex(text)
    IN  IF index # NoMatch /\ index # 0 THEN Substring0(text, index) ELSE text

\* the position of the first "}" at or after position j, 0 when there is none
RECURSIVE FirstClose(_, _)
FirstClose(text, j) ==
    IF j > Len(text) THEN 0
    ELSE IF text[j] = "}" THEN j
    ELSE FirstClose(text, j + 1)

\* MatchAt without the lookbehind: ${name} is captured too
MatchAtAnyBrace(text, i) ==
    IF text[i] # "{" THEN 0
    ELSE LET j == FirstClose(text, i + 1)
         IN  IF j >= i + 2 THEN j ELSE 0

\* /(?<!\$)\{(?<macro>[^}]+)\}/ tried at position i alone: the position of
\* the closing brace, 0 when the expression does not match there
MatchAt(text, i) ==
    IF text[i] # "{" THEN 0
    ELSE IF i > 1 /\ text[i - 1] = "$" THEN 0
    ELSE LET j == FirstClose(text, i + 1)
         IN  IF j >= i + 2 THEN j ELSE 0

\* [...script_content.matchAll(re)] from lastIndex = pos: the captured
\* 'macro' groups, leftmost first, each search resuming after the last match
RECURSIVE MatchAll(_, _)
MatchAll(text, pos) ==
    IF pos > Len(text) THEN <<>>
    ELSE LET j == MatchAt(text, pos)
         IN  IF j = 0 THEN MatchAll(text, pos + 1)
             ELSE <<SubSeq(text, pos + 1, j - 1)>> \o MatchAll(text, j + 1)

\* macro[name] = null: a new key goes last, an existing key keeps its place
SetKey(keys, name) ==
    IF name \in Range(keys) THEN keys ELSE Append(keys, name)

RECURSIVE SetKeys(_, _)
SetKeys(keys, names) ==
    IF names = <<>> THEN keys
    ELSE SetKeys(SetKey(keys, Head(names)), Tail(names))

\* readDir: the files below a directory, subdirectories flattened in place
RECURSIVE ReadDir(_)
ReadDir(entries) ==
    IF entries = <<>> THEN <<>>
    ELSE LET e == Head(entries)
         IN  (IF e.isDir THEN ReadDir(e.sub) ELSE <<e>>) \o ReadDir(Tail(entries))

\* the loop over filelist: the keys of the macro object, in insertion order
RECURSIVE ScanFiles(_, _)
ScanFiles(filelist, keys) ==
    IF filelist = <<>> THEN keys
    ELSE LET f == Head(filelist)
         IN  ScanFiles(Tail(filelist),
                       IF f.sql
                       THEN SetKeys(keys, MatchAll(CutFunctions(f.text), 1))
                       ELSE keys)

\* Object.keys(macro).map(...): one text question per macro, named after it
Options(folder) == ScanFiles(ReadDir(folder), <<>>)

File(sql, text) == [isDir |-> FALSE, sql |-> sql, text |-> text, sub |-> <<>>]

Dir(entries) == [isDir |-> TRUE, sql |-> FALSE, text |-> <<>>, sub |-> entries]

EmptyObj == <<>>

Has(obj, key) == key \in DOMAIN obj

\* Object.assign(target, source)
Assign(target, source) == source @@ target

\* options.filter(i => !(i.name in answers[prefix])).length
Missing(options, obj) == SelectSeq(options, LAMBDA n : ~Has(obj, n))

\* the notice is due when answers[prefix] is missing or lacks a macro
NoticeDue(options, ans, prefix) ==
    \/ ~Has(ans, prefix)
    \/ Len(Missing(options, ans[prefix])) > 0

\* inquirer.prompt(questions, answers): a question whose name already has an
\* answer is not displayed
Displayed(questions, given) == SelectSeq(questions, LAMBDA n : ~Has(given, n))

Values == {"1", "2"}

MIdle == [pc |-> "idle", prefix |-> "", options |-> <<>>, asked |-> <<>>,
          given |-> EmptyObj, ret |-> EmptyObj]

\* getMacroValues handing a fresh object to prompt instead of answers[prefix]
GetMacroValuesFresh(folder, prefix) ==
    LET options == Options(fs[folder]) IN
    /\ mcall.pc = "idle"
    /\ answers0' = answers
    /\ IF Len(options) > 0
       THEN LET obj == IF Has(answers, prefix) THEN answers[prefix] ELSE EmptyObj
            IN  /\ notices' = IF NoticeDue(options, answers, prefix)
                              THEN notices + 1 ELSE notices
                /\ answers' = (prefix :> obj) @@ answers
                /\ mcall' = [pc |-> "prompting", prefix |-> prefix,
                             options |-> options,
                             asked |-> Displayed(options, EmptyObj),
                             given |-> EmptyObj, ret |-> EmptyObj]
       ELSE /\ mcall' = [MIdle EXCEPT !.pc = "done", !.prefix = prefix]
            /\ UNCHANGED <<answers, notices>>
    /\ UNCHANGED <<fs, promptLog>>

\* getMacroValues creating answers[prefix] before it looks at options.length
GetMacroValuesEager(folder, prefix) ==
    LET options == Options(fs[folder])
        obj == IF Has(answers, prefix) THEN answers[prefix] ELSE EmptyObj
    IN
    /\ mcall.pc = "idle"
    /\ answers0' = answers
    /\ answers' = (prefix :> obj) @@ answers
    /\ IF Len(options) > 0
       THEN /\ notices' = IF NoticeDue(options, answers, prefix)
                          THEN notices + 1 ELSE notices
            /\ mcall' = [pc |-> "prompting", prefix |-> prefix,
                         options |-> options,
                         asked |-> Displayed(options, obj),
                         given |-> obj, ret |-> EmptyObj]
       ELSE /\ mcall' = [MIdle EXCEPT !.pc = "done", !.prefix = prefix]
            /\ UNCHANGED notices
    /\ UNCHANGED <<fs, promptLog>>

\* getMacroValues(folder_path, answers, prefix) up to the await in prompt
GetMacroValues(folder, prefix) ==
    LET options == Options(fs[folder]) IN
    /\ mcall.pc = "idle"
    /\ answers0' = answers
    /\ IF Len(options) > 0
       THEN LET obj == IF Has(answers, prefix) THEN answers[prefix] ELSE EmptyObj
            IN  /\ notices' = IF NoticeDue(options, answers, prefix)
                              THEN notices + 1 ELSE notices
                /\ answers' = (prefix :> obj) @@ answers
                /\ mcall' = [pc |-> "prompting", prefix |-> prefix,
                             options |-> options,
                             asked |-> Displayed(options, obj),
                             given |-> obj, ret |-> EmptyObj]
       ELSE /\ mcall' = [MIdle EXCEPT !.pc = "done", !.prefix = prefix]
            /\ UNCHANGED <<answers, notices>>
    /\ UNCHANGED <<fs, promptLog>>

\* a prompt whose Object.assign reaches every namespace, as it would if the
\* namespaces shared one object
PromptAnsweredShared ==
    /\ mcall.pc = "prompting"
    /\ \E vals \in [Range(mcall.asked) -> Values] :
          LET actual_answers == vals @@ mcall.given
          IN  /\ answers' = [k \in DOMAIN answers |->
                                IF k \in {"ads_macro", "bq_macro"}
                                THEN Assign(answers[k], actual_answers)
                                ELSE answers[k]]
              /\ mcall' = [mcall EXCEPT !.pc = "done", !.ret = actual_answers]
    /\ promptLog' = promptLog \o mcall.asked
    /\ UNCHANGED <<fs, answers0, notices>>

\* prompt: inquirer resolves with the given answers plus one value for every
\* displayed question; Object.assign(answers, actual_answers); return them
PromptAnswered ==
    /\ mcall.pc = "prompting"
    /\ \E vals \in [Range(mcall.asked) -> Values] :
          LET actual_answers == vals @@ mcall.given
          IN  /\ answers' = [answers EXCEPT
                    ![mcall.prefix] = Assign(answers[mcall.prefix], actual_answers)]
              /\ mcall' = [mcall EXCEPT !.pc = "done", !.ret = actual_answers]
    /\ promptLog' = promptLog \o mcall.asked
    /\ UNCHANGED <<fs, answers0, notices>>

Namespaces == {"ads_macro", "bq_macro"}

(***************************************************************************)
(* exec_cmd                                                                *)
(***************************************************************************)
CR == "\r"

\* os.EOL
EOL == "\n"

\* the characters a command writes: one chunk is one character
Chars == {"a", CR, EOL}

ExitCodes == {0, 1}

\* an option the caller sets or leaves out
Tri == {"undefined", "false", "true"}

Truthy(v) == v = "true"

OptionSets == [realtime : Tri, silent : Tri, keep_output : Tri]

\* exec_cmd called without options: options = options || {}
NoOptions ==
    [realtime |-> "undefined", silent |-> "undefined", keep_output |-> "undefined"]

\* the options object without the is_diag override
OptionsIgnoringDiag(spinner, options, diag) ==
    IF spinner /\ options.realtime = "undefined"
    THEN [options EXCEPT !.realtime = "false"] ELSE options

\* the options object after exec_cmd's first statements
EffectiveOptions(spinner, options, diag) ==
    LET o == IF spinner /\ options.realtime = "undefined"
             THEN [options EXCEPT !.realtime = "false"] ELSE options
    IN  IF diag THEN [o EXCEPT !.keep_output = "true"] ELSE o

CIdle ==
    [st |-> "idle", cmd |-> "", spinner |-> FALSE,
     req |-> NoOptions,         \* history: the options as the caller passed them
     options |-> NoOptions,     \* the options object
     stdout |-> <<>>, stderr |-> <<>>,
     procOut |-> <<>>,          \* history: what the process wrote to its stdout
     procErr |-> <<>>,          \* history: what the process wrote to its stderr
     exit |-> 0,                \* history: the exit code of the process
     width |-> 0,               \* history: process.stdout.columns at close
     settled |-> <<>>]          \* the values the promise was resolved with

Ev(id, what) == [id |-> id, ev |-> what]

Term(id, op, n, s) == [id |-> id, op |-> op, n |-> n, s |-> s]

Log(id, kind, code, text) == [id |-> id, kind |-> kind, code |-> code, text |-> text]

\* exec_cmd(cmd, spinner, options) up to the returned promise
ExecCmd(id, cmd, spinner, options) ==
    /\ calls[id].st = "idle"
    /\ calls' = [calls EXCEPT ![id] =
                    [CIdle EXCEPT !.st = "running", !.cmd = cmd,
                                  !.spinner = spinner, !.req = options,
                                  !.options = EffectiveOptions(spinner, options, is_diag)]]
    /\ events' = events \o (IF spinner THEN <<Ev(id, "spinner.start")>> ELSE <<>>)
                        \o <<Ev(id, "spawn")>>
    /\ termOut' = termOut \o (IF is_debug THEN <<Term(id, "echo", 0, <<>>)>> ELSE <<>>)
    /\ logFile' = logFile \o (IF is_debug THEN <<Log(id, "Running", 0, <<>>)>> ELSE <<>>)
    /\ UNCHANGED <<is_diag, is_debug, termErr>>

\* a data handler that echoes whatever the options say
EchoAlways(options) == TRUE

\* if (options?.realtime) process.stdout/stderr.write(chunk)
Echo(options) == Truthy(options.realtime)

\* cp.stdout.on('data')
StdoutData(id, chunk) ==
    /\ calls[id].st = "running"
    /\ calls' = [calls EXCEPT ![id].procOut = Append(@, chunk),
                              ![id].stdout = Append(@, chunk)]
    /\ termOut' = IF Echo(calls[id].options)
                  THEN Append(termOut, Term(id, "write", 0, <<chunk>>)) ELSE termOut
    /\ UNCHANGED <<is_diag, is_debug, events, termErr, logFile>>

\* cp.stderr.on('data')
StderrData(id, chunk) ==
    /\ calls[id].st = "running"
    /\ calls' = [calls EXCEPT ![id].procErr = Append(@, chunk),
                              ![id].stderr = Append(@, chunk)]
    /\ termErr' = IF Echo(calls[id].options)
                  THEN Append(termErr, Term(id, "write", 0, <<chunk>>)) ELSE termErr
    /\ UNCHANGED <<is_diag, is_debug, events, termOut, logFile>>

\* the position of the first sep in s, 0 when there is none
RECURSIVE IndexOf(_, _, _)
IndexOf(s, sep, from) ==
    IF from > Len(s) THEN 0
    ELSE IF s[from] = sep THEN from
    ELSE IndexOf(s, sep, from + 1)

\* s.split(sep) for a separator of one character
RECURSIVE Split(_, _)
Split(s, sep) ==
    LET k == IndexOf(s, sep, 1)
    IN  IF k = 0 THEN <<s>>
        ELSE <<SubSeq(s, 1, k - 1)>> \o Split(SubSeq(s, k + 1, Len(s)), sep)

\* const arr = line.split('\r'); return arr[arr.length - 1]
AfterLastCR(line) == LET arr == Split(line, CR) IN arr[Len(arr)]

\* (stdout ? stdout.split(os.EOL) : []).concat(stderr ? ... : []), mapped
Lines(stdout, stderr) ==
    LET raw == (IF stdout # <<>> THEN Split(stdout, EOL) ELSE <<>>)
               \o (IF stderr # <<>> THEN Split(stderr, EOL) ELSE <<>>)
    IN  [i \in DOMAIN raw |-> AfterLastCR(raw[i])]

\* rows counted as ceil(length / width)
RECURSIVE RowCountCeil(_, _)
RowCountCeil(lines, terminal_width) ==
    IF lines = <<>> THEN 0
    ELSE ((Len(Head(lines)) + terminal_width - 1) \div terminal_width)
         + RowCountCeil(Tail(lines), terminal_width)

\* lines.map(line => ((line.length / terminal_width) | 0) + 1).reduce(...)
RECURSIVE RowCount(_, _)
RowCount(lines, terminal_width) ==
    IF lines = <<>> THEN 0
    ELSE ((Len(Head(lines)) \div terminal_width) + 1)
         + RowCount(Tail(lines), terminal_width)

\* the erase without the lines.length > 0 test
EraseOpsUnguarded(id, c, terminal_width) ==
    IF ~c.spinner /\ Truthy(c.options.realtime) /\ ~Truthy(c.options.keep_output)
    THEN LET lines == Lines(c.stdout, c.stderr)
         IN  <<Term(id, "cursorTo", 0, <<>>),
               Term(id, "moveCursor", 1 - RowCount(lines, terminal_width), <<>>),
               Term(id, "clearScreenDown", 0, <<>>)>>
    ELSE <<>>

\* the erase of the close handler: what it does to process.stdout
EraseOps(id, c, terminal_width) ==
    IF ~c.spinner /\ Truthy(c.options.realtime) /\ ~Truthy(c.options.keep_output)
    THEN LET lines == Lines(c.stdout, c.stderr)
         IN  IF Len(lines) > 0
             THEN <<Term(id, "cursorTo", 0, <<>>),
                    Term(id, "moveCursor", 1 - RowCount(lines, terminal_width), <<>>),
                    Term(id, "clearScreenDown", 0, <<>>)>>
             ELSE <<>>
    ELSE <<>>

\* the stderr print without the test of the exit code
ShowErrorAnyCode(c, code) ==
    /\ c.stderr # <<>>
    /\ ~Truthy(c.options.realtime)
    /\ ~Truthy(c.options.silent)

\* if (stderr && !options?.realtime && !options?.silent && code !== 0)
ShowError(c, code) ==
    /\ c.stderr # <<>>
    /\ ~Truthy(c.options.realtime)
    /\ ~Truthy(c.options.silent)
    /\ code # 0

\* the close handler logging stdout and stderr before the exit code
CloseLogOutputFirst(id, c, code) ==
    <<Log(id, "stdout", 0, c.stdout),
      Log(id, "stderr", 0, c.stderr),
      Log(id, "exit", code, <<>>)>>

\* the three appendFileSync calls of the close handler
CloseLog(id, c, code) ==
    <<Log(id, "exit", code, <<>>),
      Log(id, "stdout", 0, c.stdout),
      Log(id, "stderr", 0, c.stderr)>>

\* a close handler that resolves with what stdout holds, and no stderr
ResultStdoutOnly(c, code) == [code |-> code, stderr |-> <<>>, stdout |-> c.stdout]

\* resolve({code, stderr: stderr || '', stdout: stdout || ''})
Result(c, code) == [code |-> code, stderr |-> c.stderr, stdout |-> c.stdout]

\* the close handler: the close event, spinner.stop(), resolve
CloseEvents(id, c) ==
    <<Ev(id, "close")>>
    \o (IF c.spinner THEN <<Ev(id, "spinner.stop")>> ELSE <<>>)
    \o <<Ev(id, "resolve")>>

\* cp.on('close'): the process ended with exit code `code`, and
\* process.stdout.columns is terminal_width
Close(id, code, terminal_width) ==
    LET c == calls[id]
        erase == EraseOps(id, c, terminal_width)
    IN
    /\ c.st = "running"
    /\ events' = events \o CloseEvents(id, c)
    /\ termOut' = termOut \o erase
                  \o (IF ShowError(c, code) THEN <<Term(id, "log", 0, c.stderr)>> ELSE <<>>)
    /\ logFile' = logFile \o (IF is_debug THEN CloseLog(id, c, code) ELSE <<>>)
    /\ calls' = [calls EXCEPT ![id].st = "closed",
                              ![id].exit = code,
                              ![id].width = IF erase # <<>> THEN terminal_width ELSE 0,
                              ![id].settled = Append(@, Result(c, code))]
    /\ UNCHANGED <<is_diag, is_debug, termErr>>

NoCalls == <<>>

CmdUnused ==
    /\ is_diag = FALSE
    /\ is_debug = FALSE
    /\ calls = NoCalls
    /\ events = <<>>
    /\ termOut = <<>>
    /\ termErr = <<>>
    /\ logFile = <<>>

\* init is not running
IpcNone == [pc |-> "none", schedule_wf |-> FALSE, run_job |-> FALSE,
            macro_ads |-> EmptyObj, macro_bq |-> EmptyObj]

MacroUnused ==
    /\ fs = EmptyObj
    /\ answers = EmptyObj
    /\ answers0 = EmptyObj
    /\ mcall = MIdle
    /\ notices = 0
    /\ promptLog = <<>>

(***************************************************************************)
(* SpecScan: getMacroValues on one folder whose first file holds any text  *)
(* of at most MaxText lexemes                                              *)
(***************************************************************************)
ScanFolder == "queries"

\* what the folder holds besides its first file
ScanExtras ==
    { <<>>,
      <<File(TRUE, <<"$", "{", "a", "}", "{", "a", "}">>)>>,
      <<Dir(<<File(TRUE, <<"{", "$", "}", "{", "a", "}">>)>>),
        File(FALSE, <<"{", "a", "a", "}">>)>> }

InitScan ==
    /\ \E text \in SeqsUpTo(Lexemes, MaxText), extra \in ScanExtras :
          fs = (ScanFolder :> (<<File(TRUE, text)>> \o extra))
    /\ answers = EmptyObj
    /\ answers0 = EmptyObj
    /\ mcall = MIdle
    /\ notices = 0
    /\ promptLog = <<>>
    /\ CmdUnused
    /\ ipc = IpcNone

ScanCall ==
    /\ GetMacroValues(ScanFolder, "ads_macro")
    /\ UNCHANGED <<cmdVars, ipc>>

ScanAnswer ==
    /\ PromptAnswered
    /\ UNCHANGED <<cmdVars, ipc>>

NextScan == ScanCall \/ ScanAnswer

SpecScan == InitScan /\ [][NextScan]_vars

(***************************************************************************)
(* Placeholder tokens, stated on positions of a text                       *)
(***************************************************************************)
\* position i holds an opening brace that no "$" precedes
IsOpen(t, i) == t[i] = "{" /\ (i = 1 \/ t[i - 1] # "$")

\* the token opened at i ends at j: a non-empty run without "}" lies between
ClosesAt(t, i, j) ==
    /\ j \in (i + 2)..Len(t)
    /\ t[j] = "}"
    /\ \A k \in (i + 1)..(j - 1) : t[k] # "}"

IsToken(t, i) == IsOpen(t, i) /\ \E j \in DOMAIN t : ClosesAt(t, i, j)

TokenName(t, i) ==
    LET j == CHOOSE k \in DOMAIN t : ClosesAt(t, i, k) IN SubSeq(t, i + 1, j - 1)

\* the token at i does not start inside the name of an earlier token
IsOuter(t, i) ==
    /\ IsToken(t, i)
    /\ ~ \E h \in 1..(i - 1), j \in DOMAIN t :
            IsToken(t, h) /\ ClosesAt(t, h, j) /\ j > i

TokenNames(t) == {TokenName(t, i) : i \in {k \in DOMAIN t : IsToken(t, k)}}

OuterNames(t) == {TokenName(t, i) : i \in {k \in DOMAIN t : IsOuter(t, k)}}

\* the text before the first marker, wherever the marker is
BeforeMarker(t) ==
    LET hits == {k \in DOMAIN t : t[k] \in Markers}
    IN  IF hits = {} THEN t
        ELSE SubSeq(t, 1, (CHOOSE k \in hits : \A h \in hits : k <= h) - 1)

SqlTexts(folder) ==
    LET files == ReadDir(folder)
    IN  {files[i].text : i \in {k \in DOMAIN files : files[k].sql}}

Scanned == mcall.pc # "idle"

\* C2: no discovered macro name occurs only after the first FUNCTIONS
\* marker of its file, at whatever position the marker is (position 0
\* included): every discovered name is the name of a placeholder that lies
\* before the marker of some .sql file.
C2_NothingAfterMarker ==
    Scanned =>
        \A n \in Range(mcall.options) :
            \E t \in SqlTexts(fs[ScanFolder]) : n \in OuterNames(BeforeMarker(t))

\* C3 as stated: the discovered set is exactly the set of the names of all
\* {name} tokens of the scanned texts whose opening brace no "$" precedes.
C3_AllTokens ==
    Scanned =>
        Range(mcall.options) =
            UNION {TokenNames(CutFunctions(t)) : t \in SqlTexts(fs[ScanFolder])}

\* C3 as amended: the discovered set is exactly the set of the names of the
\* {name} tokens whose opening brace no "$" precedes and that do not start
\* inside an earlier such token; every name is listed once, also when it
\* occurs several times or in several files.
C3_OuterTokens ==
    Scanned =>
        /\ Range(mcall.options) =
              UNION {OuterNames(CutFunctions(t)) : t \in SqlTexts(fs[ScanFolder])}
        /\ Cardinality(Range(mcall.options)) = Len(mcall.options)

\* a scan that met an escaped ${a}, and the name a in two files
C3_Witness ==
    /\ Scanned
    /\ mcall.options = << <<"a">> >>
    /\ LET files == ReadDir(fs[ScanFolder])
       IN  Cardinality({k \in DOMAIN files :
               files[k].sql /\ <<"a">> \in OuterNames(files[k].text)}) = 2
    /\ \E t \in SqlTexts(fs[ScanFolder]) :
          \E i \in DOMAIN t :
              i > 1 /\ t[i - 1] = "$" /\ t[i] = "{" /\ ClosesAt(t, i, i + 2)

(***************************************************************************)
(* SpecMacro: getMacroValues on a folder of at most MaxFiles files, with   *)
(* any answers loaded beforehand                                           *)
(***************************************************************************)
MacroTexts ==
    { <<>>,
      <<"{", "a", "}">>,
      <<"{", "b", "}">>,
      <<"{", "a", "}", "{", "b", "}">>,
      <<"$", "{", "a", "}">> }

MacroNames == { <<"a">>, <<"b">> }

\* the objects an answers file can hold under a namespace
CachedObjs == UNION {[D -> Values] : D \in SUBSET MacroNames}

\* answers as loaded by init: the project name, and any of the namespaces
LoadedAnswers ==
    UNION { {("name" :> "proj") @@ ns : ns \in [N -> CachedObjs]}
            : N \in SUBSET Namespaces }

InitMacro ==
    /\ \E files \in SeqsUpTo({File(sql, text) : sql \in BOOLEAN, text \in MacroTexts},
                             MaxFiles) :
          fs = (ScanFolder :> files)
    /\ answers \in LoadedAnswers
    /\ answers0 = EmptyObj
    /\ mcall = MIdle
    /\ notices = 0
    /\ promptLog = <<>>
    /\ CmdUnused
    /\ ipc = IpcNone

MacroCall ==
    /\ \E prefix \in Namespaces : GetMacroValues(ScanFolder, prefix)
    /\ UNCHANGED <<cmdVars, ipc>>

MacroAnswer ==
    /\ PromptAnswered
    /\ UNCHANGED <<cmdVars, ipc>>

NextMacro == MacroCall \/ MacroAnswer

SpecMacro == InitMacro /\ [][NextMacro]_vars

\* the entries answers[prefix] had when getMacroValues was entered
Cached0 ==
    IF Has(answers0, mcall.prefix) THEN answers0[mcall.prefix] ELSE EmptyObj

\* the placeholders of the folder, stated on the texts
Placeholders ==
    UNION {OuterNames(CutFunctions(t)) : t \in SqlTexts(fs[ScanFolder])}

\* C1: with a non-empty Placeholder Set, the prompt delegate asks only for
\* the names that answers[prefix] lacked; every entry answers[prefix] had
\* keeps its value; the returned mapping holds the cached entries together
\* with one value for every name asked.
C1_CacheShortCircuit ==
    (Scanned /\ Placeholders # {}) =>
        /\ mcall.pc \in {"prompting", "done"}
        /\ Range(mcall.asked) = Placeholders \ DOMAIN Cached0
        /\ \A n \in DOMAIN Cached0 :
              Has(answers[mcall.prefix], n) /\ answers[mcall.prefix][n] = Cached0[n]
        /\ mcall.pc = "done" =>
              /\ promptLog = mcall.asked
              /\ DOMAIN mcall.ret = DOMAIN Cached0 \cup Range(mcall.asked)
              /\ \A n \in DOMAIN Cached0 : mcall.ret[n] = Cached0[n]
              /\ \A n \in Range(mcall.asked) : mcall.ret[n] \in Values
              /\ answers[mcall.prefix] = mcall.ret

\* the cache held a, the folder uses a and b: only b was asked
C1_Witness ==
    /\ mcall.pc = "done"
    /\ Placeholders = MacroNames
    /\ DOMAIN Cached0 = { <<"a">> }
    /\ promptLog = << <<"b">> >>
    /\ mcall.ret[<<"a">>] = Cached0[<<"a">>]

\* C4: when the folder has no .sql file, or its .sql files hold no
\* placeholder, getMacroValues returns an empty mapping at once, without a
\* prompt or a notice, and answers is left as it was (answers[prefix] is
\* not created).
C4_EmptyCase ==
    (Scanned /\ Placeholders = {}) =>
        /\ mcall.pc = "done"
        /\ mcall.ret = EmptyObj
        /\ promptLog = <<>>
        /\ notices = 0
        /\ answers = answers0
        /\ DOMAIN answers = DOMAIN answers0

\* a folder with files but no placeholder, resolved for a namespace that
\* answers does not hold
C4_Witness ==
    /\ mcall.pc = "done"
    /\ Placeholders = {}
    /\ Len(fs[ScanFolder]) > 0
    /\ \E i \in DOMAIN fs[ScanFolder] : fs[ScanFolder][i].sql
    /\ ~Has(answers, mcall.prefix)

(***************************************************************************)
(* SpecCmd: one exec_cmd call with any spinner and options; the command    *)
(* writes at most MaxOut characters to stdout and MaxErr to stderr         *)
(***************************************************************************)
InitCmd ==
    /\ \E diag \in BOOLEAN, debug \in BOOLEAN :
          /\ is_diag = diag
          /\ is_debug = (debug \/ diag)
    /\ calls = (1 :> CIdle)
    /\ events = <<>>
    /\ termOut = <<>>
    /\ termErr = <<>>
    /\ logFile = <<>>
    /\ MacroUnused
    /\ ipc = IpcNone

CmdCall ==
    /\ \E spinner \in BOOLEAN, options \in OptionSets :
          ExecCmd(1, "cmd", spinner, options)
    /\ UNCHANGED <<macroVars, ipc>>

CmdStdout ==
    /\ Len(calls[1].procOut) < MaxOut
    /\ \E chunk \in Chars : StdoutData(1, chunk)
    /\ UNCHANGED <<macroVars, ipc>>

CmdStderr ==
    /\ Len(calls[1].procErr) < MaxErr
    /\ \E chunk \in Chars : StderrData(1, chunk)
    /\ UNCHANGED <<macroVars, ipc>>

CmdClose ==
    /\ \E code \in ExitCodes, terminal_width \in 1..MaxWidth :
          Close(1, code, terminal_width)
    /\ UNCHANGED <<macroVars, ipc>>

NextCmd == CmdCall \/ CmdStdout \/ CmdStderr \/ CmdClose

SpecCmd == InitCmd /\ [][NextCmd]_vars

(***************************************************************************)
(* exec_cmd: what one call did                                             *)
(***************************************************************************)
EventsOf(id) == SelectSeq(events, LAMBDA e : e.id = id)

EraseKinds == {"cursorTo", "moveCursor", "clearScreenDown"}

\* the cursor movements and clearings call id did on process.stdout
ErasesOf(id) == SelectSeq(termOut, LAMBDA e : e.id = id /\ e.op \in EraseKinds)

\* the text call id echoed to a stream, chunk after chunk
RECURSIVE Written(_, _)
Written(term, id) ==
    IF term = <<>> THEN <<>>
    ELSE (IF Head(term).id = id /\ Head(term).op = "write" THEN Head(term).s ELSE <<>>)
         \o Written(Tail(term), id)

Started == {id \in DOMAIN calls : calls[id].st # "idle"}

\* C5: a call is settled once, by the close handler and not before, with
\* the Result {code, stdout, stderr} that holds the exit code of the
\* process and all it wrote; a failing command is a Result like any other.
C5_SettledOnceAtClose ==
    \A id \in Started :
        LET c == calls[id]
            evs == EventsOf(id)
            resolves == {i \in DOMAIN evs : evs[i].ev = "resolve"}
        IN  /\ c.st = "running" => (c.settled = <<>> /\ resolves = {})
            /\ c.st = "closed" =>
                  /\ c.settled = <<[code |-> c.exit, stderr |-> c.procErr,
                                    stdout |-> c.procOut]>>
                  /\ Cardinality(resolves) = 1
                  /\ \A i \in resolves : \E k \in 1..(i - 1) : evs[k].ev = "close"

\* a command that failed after writing to both streams
C5_Witness ==
    /\ calls[1].st = "closed"
    /\ calls[1].exit = 1
    /\ Len(calls[1].procOut) = MaxOut
    /\ calls[1].procErr # <<>>
    /\ calls[1].settled[1].code = 1

\* C7: with the diagnostic flag set, no call moves the cursor or clears the
\* screen, whatever the caller passed.
C7_DiagNeverErases ==
    is_diag => \A i \in DOMAIN termOut : termOut[i].op \notin EraseKinds

\* diag, and a call that asked for the erase: realtime, no spinner,
\* keep_output: false, and output on the screen
C7_Witness ==
    /\ is_diag
    /\ calls[1].st = "closed"
    /\ ~calls[1].spinner
    /\ calls[1].req.realtime = "true"
    /\ calls[1].req.keep_output = "false"
    /\ calls[1].procOut # <<>>

\* the positions that bound the lines of s: before it, its EOLs, after it
Breaks(s) == {0, Len(s) + 1} \cup {i \in DOMAIN s : s[i] = EOL}

\* the length of the line that follows the break b, after its last CR
NormalLen(s, b) ==
    LET end == CHOOSE e \in Breaks(s) :
                   e > b /\ \A x \in Breaks(s) : x > b => e <= x
        crs == {i \in (b + 1)..(end - 1) : s[i] = CR}
        last == IF crs = {} THEN b ELSE CHOOSE i \in crs : \A x \in crs : x <= i
    IN  end - 1 - last

RECURSIVE SumRows(_, _, _)
SumRows(s, bs, w) ==
    IF bs = {} THEN 0
    ELSE LET b == CHOOSE x \in bs : TRUE
         IN  (NormalLen(s, b) \div w) + 1 + SumRows(s, bs \ {b}, w)

\* the rows the lines of a stream take on a terminal w columns wide
StreamRows(s, w) ==
    IF s = <<>> THEN 0 ELSE SumRows(s, Breaks(s) \ {Len(s) + 1}, w)

\* C8: in the erase, the cursor is moved up rowCount - 1 rows, rowCount the
\* sum over the lines of stdout and stderr, each cut to the text after its
\* last carriage return, of floor(length / terminalWidth) + 1.
C8_RowCount ==
    \A id \in Started :
        LET c == calls[id]
            ops == ErasesOf(id)
        IN  ops # <<>> =>
                /\ c.width >= 1
                /\ \E i \in DOMAIN ops : ops[i].op = "moveCursor"
                /\ \A i \in DOMAIN ops :
                      ops[i].op = "moveCursor" =>
                          ops[i].n = - ((StreamRows(c.procOut, c.width)
                                         + StreamRows(c.procErr, c.width)) - 1)

\* an erase of 'a CR a' on a terminal one column wide: one line of length 1
C8_Witness ==
    /\ calls[1].procOut = <<"a", CR, "a">>
    /\ calls[1].procErr = <<EOL>>
    /\ calls[1].width = 1
    /\ \E i \in DOMAIN termOut : termOut[i].op = "moveCursor" /\ termOut[i].n = -3

\* C9: a spinner is started before the process is spawned and stopped once,
\* in the close handler; with a spinner, chunks are echoed only when the
\* caller passed realtime: true.
C9_Spinner ==
    \A id \in Started :
        LET c == calls[id]
            evs == EventsOf(id)
            live == c.req.realtime = "true"
        IN  c.spinner =>
                /\ c.st = "running" =>
                      evs = <<Ev(id, "spinner.start"), Ev(id, "spawn")>>
                /\ c.st = "closed" =>
                      evs = <<Ev(id, "spinner.start"), Ev(id, "spawn"),
                              Ev(id, "close"), Ev(id, "spinner.stop"),
                              Ev(id, "resolve")>>
                /\ Written(termOut, id) = IF live THEN c.procOut ELSE <<>>
                /\ Written(termErr, id) = IF live THEN c.procErr ELSE <<>>

\* a spinner call without a realtime option, whose command wrote output
C9_Witness ==
    /\ calls[1].spinner
    /\ calls[1].st = "closed"
    /\ calls[1].req.realtime = "undefined"
    /\ calls[1].procOut # <<>>
    /\ calls[1].procErr # <<>>

\* C10: the close handler does cursorTo(0), a cursor move upwards and
\* clearScreenDown, once and in this order, when realtime echo was on, no
\* spinner was passed, keep_output (as forced by the diagnostic flag) is
\* not set and the command wrote something; in every other case, and
\* before the close, it moves and clears nothing.
C10_EraseOnce ==
    \A id \in Started :
        LET c == calls[id]
            ops == ErasesOf(id)
            due == /\ c.req.realtime = "true"
                   /\ ~c.spinner
                   /\ ~(c.req.keep_output = "true" \/ is_diag)
                   /\ (c.procOut # <<>> \/ c.procErr # <<>>)
        IN  /\ c.st = "running" => ops = <<>>
            /\ c.st = "closed" =>
                  IF due
                  THEN /\ Len(ops) = 3
                       /\ ops[1].op = "cursorTo" /\ ops[1].n = 0
                       /\ ops[2].op = "moveCursor" /\ ops[2].n <= 0
                       /\ ops[3].op = "clearScreenDown"
                  ELSE ops = <<>>

\* an erase after output on both streams
C10_Witness ==
    /\ calls[1].st = "closed"
    /\ Len(ErasesOf(1)) = 3
    /\ calls[1].procOut # <<>>
    /\ calls[1].procErr # <<>>

\* what call id printed with console.log(stderr)
ErrorPrintsOf(id) == SelectSeq(termOut, LAMBDA e : e.id = id /\ e.op = "log")

\* C11: the close handler prints the captured stderr, once, exactly when
\* the output was not echoed live, the command wrote to stderr, its exit
\* code is not 0 and silent is not set; in every other case, and before the
\* close, the captured stderr is not printed.
C11_ErrorSurfacing ==
    \A id \in Started :
        LET c == calls[id]
            prints == ErrorPrintsOf(id)
            live == IF c.spinner /\ c.req.realtime = "undefined"
                    THEN FALSE ELSE c.req.realtime = "true"
            due == /\ ~live
                   /\ c.procErr # <<>>
                   /\ c.exit # 0
                   /\ c.req.silent # "true"
        IN  /\ c.st = "running" => prints = <<>>
            /\ c.st = "closed" =>
                  IF due
                  THEN /\ Len(prints) = 1
                       /\ prints[1].s = c.procErr
                  ELSE prints = <<>>
            /\ live => Written(termErr, id) = c.procErr

\* a failed command without realtime and silent whose stderr was printed
C11_Witness ==
    /\ calls[1].st = "closed"
    /\ calls[1].exit = 1
    /\ calls[1].procErr = <<"a">>
    /\ calls[1].req.silent = "false"
    /\ calls[1].req.realtime = "false"
    /\ Len(ErrorPrintsOf(1)) = 1

(***************************************************************************)
(* init: the exec_cmd and getMacroValues calls of one run, in program      *)
(* order.  The prompts and the execSync calls between them are left out;   *)
(* what they decide is chosen freely.                                      *)
(***************************************************************************)
\* the exec_cmd call sites of initialize_gcp_project and init, in order
WhichGcloud == 1

GitClone == 2

GsutilMb == 3

DeployScripts == 4

DeployWf == 5

ScheduleWf == 6

RunJob == 7

Sites == WhichGcloud..RunJob

Silent == [NoOptions EXCEPT !.silent = "true"]

Realtime == [NoOptions EXCEPT !.realtime = "true"]

AdsFolder == "ads-queries"

BqFolder == "bq-queries"

Closed(id) == calls[id].st = "closed"

Goto(pc) == ipc' = [ipc EXCEPT !.pc = pc]

\* init before initialize_gcp_project: LOG_FILE is written anew when is_debug
InitBegin ==
    /\ ipc.pc = "start"
    /\ logFile' = IF is_debug THEN <<Log(0, "header", 0, <<>>)>> ELSE logFile
    /\ Goto("gcp")
    /\ UNCHANGED <<macroVars, is_diag, is_debug, calls, events, termOut, termErr>>

\* initialize_gcp_project: await exec_cmd('which gcloud', null, {silent: true})
InitWhichGcloud ==
    /\ ipc.pc = "gcp"
    /\ ExecCmd(WhichGcloud, "which gcloud", FALSE, Silent)
    /\ Goto("await_which")
    /\ UNCHANGED macroVars

\* gcloud is missing, or gcloud is not authenticated: process.exit(-1)
InitGcloudChecked ==
    /\ ipc.pc = "await_which"
    /\ Closed(WhichGcloud)
    /\ \E usable \in BOOLEAN :
          IF calls[WhichGcloud].settled[1].code # 0 \/ ~usable
          THEN Goto("exit") ELSE Goto("clone")
    /\ UNCHANGED <<macroVars, cmdVars>>

\* if (!fs.existsSync(gaarf_folder)) await exec_cmd('git clone ...', spinner)
InitClone ==
    /\ ipc.pc = "clone"
    /\ \/ /\ ExecCmd(GitClone, "git clone", TRUE, NoOptions)
          /\ Goto("await_clone")
       \/ /\ Goto("bucket")
          /\ UNCHANGED cmdVars
    /\ UNCHANGED macroVars

InitCloned ==
    /\ ipc.pc = "await_clone"
    /\ Closed(GitClone)
    /\ Goto("bucket")
    /\ UNCHANGED <<macroVars, cmdVars>>

\* await exec_cmd('gsutil mb ...', spinner, {silent: true})
InitBucket ==
    /\ ipc.pc = "bucket"
    /\ ExecCmd(GsutilMb, "gsutil mb", TRUE, Silent)
    /\ Goto("await_bucket")
    /\ UNCHANGED macroVars

\* init going on to getMacroValues without awaiting 'gsutil mb'
InitBucketNotAwaited ==
    /\ ipc.pc = "await_bucket"
    /\ Goto("macro_ads")
    /\ UNCHANGED <<macroVars, cmdVars>>

InitBucketMade ==
    /\ ipc.pc = "await_bucket"
    /\ Closed(GsutilMb)
    /\ Goto("macro_ads")
    /\ UNCHANGED <<macroVars, cmdVars>>

\* const macro_ads = await getMacroValues(<ads queries>, answers, 'ads_macro')
InitMacroAds ==
    /\ ipc.pc = "macro_ads"
    /\ GetMacroValues(AdsFolder, "ads_macro")
    /\ Goto("await_macro_ads")
    /\ UNCHANGED cmdVars

\* the operator answers the questions of getMacroValues
InitMacroAnswered ==
    /\ PromptAnswered
    /\ UNCHANGED <<cmdVars, ipc>>

InitMacroAdsDone ==
    /\ ipc.pc = "await_macro_ads"
    /\ mcall.pc = "done"
    /\ ipc' = [ipc EXCEPT !.pc = "macro_bq", !.macro_ads = mcall.ret]
    /\ mcall' = MIdle
    /\ UNCHANGED <<fs, answers, answers0, notices, promptLog, cmdVars>>

\* const macro_bq = await getMacroValues(<bq queries>, answers, 'bq_macro')
InitMacroBq ==
    /\ ipc.pc = "macro_bq"
    /\ GetMacroValues(BqFolder, "bq_macro")
    /\ Goto("await_macro_bq")
    /\ UNCHANGED cmdVars

\* macro_bq is set; answers3: schedule_wf, and run_job when scheduling
InitMacroBqDone ==
    /\ ipc.pc = "await_macro_bq"
    /\ mcall.pc = "done"
    /\ \E schedule_wf \in BOOLEAN, run_job \in BOOLEAN :
          /\ run_job => schedule_wf
          /\ ipc' = [ipc EXCEPT !.pc = "deploy_scripts", !.macro_bq = mcall.ret,
                                !.schedule_wf = schedule_wf, !.run_job = run_job]
    /\ mcall' = MIdle
    /\ UNCHANGED <<fs, answers, answers0, notices, promptLog, cmdVars>>

\* if (ready_to_deploy_scripts) and the operator agrees:
\* await exec_cmd('./deploy-scripts.sh', null, {realtime: true})
InitDeployScripts ==
    /\ ipc.pc = "deploy_scripts"
    /\ \/ /\ ExecCmd(DeployScripts, "deploy-scripts.sh", FALSE, Realtime)
          /\ Goto("await_deploy_scripts")
       \/ /\ Goto("deploy_wf")
          /\ UNCHANGED cmdVars
    /\ UNCHANGED macroVars

InitScriptsDeployed ==
    /\ ipc.pc = "await_deploy_scripts"
    /\ Closed(DeployScripts)
    /\ Goto("deploy_wf")
    /\ UNCHANGED <<macroVars, cmdVars>>

\* if the operator agrees: await exec_cmd('./deploy-wf.sh', spinner)
InitDeployWf ==
    /\ ipc.pc = "deploy_wf"
    /\ \/ /\ ExecCmd(DeployWf, "deploy-wf.sh", TRUE, NoOptions)
          /\ Goto("await_deploy_wf")
       \/ /\ Goto("schedule")
          /\ UNCHANGED cmdVars
    /\ UNCHANGED macroVars

InitWfDeployed ==
    /\ ipc.pc = "await_deploy_wf"
    /\ Closed(DeployWf)
    /\ Goto("schedule")
    /\ UNCHANGED <<macroVars, cmdVars>>

\* if (answers3.schedule_wf) await exec_cmd('./schedule-wf.sh', spinner)
InitSchedule ==
    /\ ipc.pc = "schedule"
    /\ IF ipc.schedule_wf
       THEN /\ ExecCmd(ScheduleWf, "schedule-wf.sh", TRUE, NoOptions)
            /\ Goto("await_schedule")
       ELSE /\ Goto("finish")
            /\ UNCHANGED cmdVars
    /\ UNCHANGED macroVars

\* after schedule-wf.sh: if (answers3.run_job) exec_cmd('gcloud scheduler
\* jobs run ...', null, {realtime: true}), which init does not await
InitScheduled ==
    /\ ipc.pc = "await_schedule"
    /\ Closed(ScheduleWf)
    /\ IF ipc.run_job
       THEN ExecCmd(RunJob, "gcloud scheduler jobs run", FALSE, Realtime)
       ELSE UNCHANGED cmdVars
    /\ Goto("finish")
    /\ UNCHANGED macroVars

\* the run-gaarf scripts, 'All done', the tips, the answers file
InitFinish ==
    /\ ipc.pc = "finish"
    /\ termOut' = Append(termOut, Term(0, "All done", 0, <<>>))
    /\ Goto("done")
    /\ UNCHANGED <<macroVars, is_diag, is_debug, calls, events, termErr, logFile>>

\* chunks written by the commands of the run so far
RunChunks ==
    LET n[k \in 0..RunJob] ==
            IF k = 0 THEN 0
            ELSE n[k - 1] + Len(calls[k].procOut) + Len(calls[k].procErr)
    IN  n[RunJob]

\* commands of the run that ended with a non-zero exit code
RunFailures == Cardinality({id \in Sites : Closed(id) /\ calls[id].exit # 0})

InitStdout ==
    /\ RunChunks + RunFailures < MaxRunEvents
    /\ \E id \in Sites : StdoutData(id, "a")
    /\ UNCHANGED <<macroVars, ipc>>

InitStderr ==
    /\ RunChunks + RunFailures < MaxRunEvents
    /\ \E id \in Sites : StderrData(id, "a")
    /\ UNCHANGED <<macroVars, ipc>>

InitClose ==
    /\ \E id \in Sites, code \in ExitCodes :
          /\ code = 0 \/ RunChunks + RunFailures < MaxRunEvents
          /\ Close(id, code, MaxWidth)
    /\ UNCHANGED <<macroVars, ipc>>

\* the query folders of the run, and the answers file it was started with
InitInit ==
    /\ \E bq \in {<<>>, <<File(TRUE, <<"{", "a", "}">>)>>} :
          fs = (AdsFolder :> <<File(TRUE, <<"{", "a", "}">>)>>) @@ (BqFolder :> bq)
    /\ answers \in {("name" :> "proj"),
                    ("name" :> "proj") @@ ("ads_macro" :> (<<"a">> :> "1"))}
    /\ answers0 = EmptyObj
    /\ mcall = MIdle
    /\ notices = 0
    /\ promptLog = <<>>
    /\ \E diag \in BOOLEAN, debug \in BOOLEAN :
          /\ is_diag = diag
          /\ is_debug = (debug \/ diag)
    /\ calls = [id \in Sites |-> CIdle]
    /\ events = <<>>
    /\ termOut = <<>>
    /\ termErr = <<>>
    /\ logFile = <<>>
    /\ ipc = [IpcNone EXCEPT !.pc = "start"]

NextInit ==
    \/ InitBegin \/ InitWhichGcloud \/ InitGcloudChecked
    \/ InitClone \/ InitCloned \/ InitBucket \/ InitBucketMade
    \/ InitMacroAds \/ InitMacroAnswered \/ InitMacroAdsDone
    \/ InitMacroBq \/ InitMacroBqDone
    \/ InitDeployScripts \/ InitScriptsDeployed
    \/ InitDeployWf \/ InitWfDeployed
    \/ InitSchedule \/ InitScheduled \/ InitFinish
    \/ InitStdout \/ InitStderr \/ InitClose

SpecInit == InitInit /\ [][NextInit]_vars

\* the place of an entry within the log block of its command
LogRank(kind) ==
    CASE kind = "header" -> 0
      [] kind = "Running" -> 1
      [] kind = "exit" -> 2
      [] kind = "stdout" -> 3
      [] kind = "stderr" -> 4

\* C6: with the debug flag set, the log entries of a command all come
\* before those of any command issued after it, and within one command
\* the 'Running' entry, the exit code, stdout and stderr come in this order
\* (call sites are numbered in the order init issues them).
C6_LogBlocksInOrder ==
    is_debug =>
        \A p \in DOMAIN logFile, q \in DOMAIN logFile :
            p < q =>
                \/ logFile[p].id < logFile[q].id
                \/ /\ logFile[p].id = logFile[q].id
                   /\ LogRank(logFile[p].kind) < LogRank(logFile[q].kind)

\* the log of a run whose last two commands both wrote their four entries
C6_Witness ==
    /\ is_debug
    /\ Closed(ScheduleWf)
    /\ Closed(RunJob)
    /\ calls[ScheduleWf].procErr # <<>>
    /\ Len(SelectSeq(logFile, LAMBDA e : e.id = ScheduleWf)) = 4
    /\ Len(SelectSeq(logFile, LAMBDA e : e.id = RunJob)) = 4

\* the exec_cmd processes in flight
InFlight == {id \in Sites : calls[id].st = "running"}

\* a getMacroValues resolution is in progress
Resolving == ipc.pc \in {"await_macro_ads", "await_macro_bq"}

\* C12: in a run of init at most one exec_cmd process is in flight, none is
\* in flight while getMacroValues is in progress, and a command is started
\* only after every command issued before it has closed and resolved (call
\* sites are numbered in the order init issues them).
C12_OneAtATime ==
    /\ Cardinality(InFlight) <= 1
    /\ Resolving => InFlight = {}
    /\ mcall.pc = "prompting" => InFlight = {}
    /\ \A p \in DOMAIN events, q \in DOMAIN events :
          (p < q /\ events[q].ev = "spawn" /\ events[p].id # events[q].id) =>
              /\ events[p].id < events[q].id
              /\ \E k \in p..(q - 1) :
                    events[k] = Ev(events[p].id, "resolve")

\* the job is running after schedule-wf.sh, both resolutions and the
\* commands before them have completed
C12_Witness ==
    /\ calls[RunJob].st = "running"
    /\ Closed(GsutilMb)
    /\ Closed(DeployScripts)
    /\ Closed(ScheduleWf)
    /\ promptLog # <<>>
    /\ DOMAIN ipc.macro_bq # {}

\* C13: when init goes on to the run-gaarf scripts, 'All done' and the
\* answers file, every command it started has closed and resolved.
C13_AllClosedAtCompletion ==
    ipc.pc \in {"finish", "done"} => InFlight = {}

\* the top-level entries of answers other than the namespace being resolved
Others == DOMAIN answers0 \ {mcall.prefix}

\* init has both macro_ads and macro_bq
AfterBq == {"deploy_scripts", "await_deploy_scripts", "deploy_wf",
            "await_deploy_wf", "schedule", "await_schedule", "finish", "done"}

\* init has macro_ads
AfterAds == {"macro_bq", "await_macro_bq"} \cup AfterBq

\* C14: a getMacroValues call changes nothing in answers outside
\* answers[prefix]: every other entry is as it was when the call was
\* entered and no other entry appears; so through the 'bq_macro' call and
\* after it answers['ads_macro'] is what the 'ads_macro' call returned, and
\* answers['bq_macro'] is what the 'bq_macro' call returned.
C14_NamespaceFrame ==
    /\ mcall.pc # "idle" =>
          /\ DOMAIN answers \subseteq DOMAIN answers0 \cup {mcall.prefix}
          /\ \A k \in Others : Has(answers, k) /\ answers[k] = answers0[k]
    /\ ipc.pc \in AfterAds =>
          /\ Has(answers, "ads_macro")
          /\ answers["ads_macro"] = ipc.macro_ads
    /\ ipc.pc \in AfterBq =>
          IF Has(answers, "bq_macro")
          THEN answers["bq_macro"] = ipc.macro_bq
          ELSE ipc.macro_bq = EmptyObj

\* both folders use the macro a, and the operator gave it a different value
\* in each namespace
C14_Witness ==
    /\ ipc.pc = "done"
    /\ Has(answers, "ads_macro") /\ Has(answers, "bq_macro")
    /\ answers["ads_macro"][<<"a">>] = "1"
    /\ answers["bq_macro"][<<"a">>] = "2"
    /\ ipc.macro_ads # ipc.macro_bq

====
